---------------------------- MODULE Spec2Model ----------------------------
(***************************************************************************)
(* A model of soma_sat_solver.py: the orientation generator, the placement *)
(* enumerator, the exact-cover CNF encoder and the blocking-clause model   *)
(* counter.  A cell is a triple <<x, y, z>>, a piece a sequence of cells,  *)
(* a clause a sequence of nonzero integers.                                *)
(***************************************************************************)
EXTENDS Integers, Sequences, FiniteSets, TLC

VARIABLES
    cfg,                  \* which piece list / volume the script runs on
    pc,                   \* which function is running, or what has returned
    rot_index,            \* line 43: index of the piece being rotated
    rot_seq,              \* generate_rotations: number of the transform sequence
    rot_acc,              \* generate_rotations: its local list `orientations`
    orientations,         \* module-level `orientations` (line 43)
    loop,                 \* generate_placements: <<anchor, piece>> loop indices
    gp,                   \* generate_placements: its dictionaries and counter
    group,                \* generate_sat_instance: number of the next group
    model,                \* a truth assignment: the set of true variables
    faults,               \* how many single-variable changes were made to it
    cs_clauses,           \* count_solutions: its argument `clauses`
    cs_num_vars,          \* count_solutions: its argument `num_vars`
    solver,               \* count_solutions: the clauses the solver holds
    solution_count,       \* count_solutions: solution_count
    models                \* count_solutions: models

vars == <<cfg, pc, rot_index, rot_seq, rot_acc, orientations, loop, gp, group,
          model, faults, cs_clauses, cs_num_vars, solver, solution_count, models>>

satVars == <<model, faults>>

cntVars == <<cs_clauses, cs_num_vars, solver, solution_count, models>>

genVars == <<cfg, rot_index, rot_seq, rot_acc, orientations, loop, gp, group>>

Range(s) == {s[i] : i \in DOMAIN s}

(***************************************************************************)
(* The seven pieces (lines 10-18).                                         *)
(***************************************************************************)
z == << <<0, 0, 0>>, <<1, 0, 0>>, <<1, 1, 0>>, <<2, 1, 0>> >>
p == << <<0, 0, 0>>, <<0, 1, 0>>, <<0, 1, 1>>, <<1, 1, 0>> >>
t == << <<0, 0, 0>>, <<0, 1, 0>>, <<1, 1, 0>>, <<0, 2, 0>> >>
b == << <<0, 0, 0>>, <<1, 0, 0>>, <<0, 1, 0>>, <<0, 1, 1>> >>
a == << <<0, 0, 0>>, <<0, 0, 1>>, <<0, 1, 0>>, <<1, 1, 0>> >>
l == << <<0, 0, 0>>, <<1, 0, 0>>, <<2, 0, 0>>, <<0, 1, 0>> >>
v == << <<0, 0, 0>>, <<1, 0, 0>>, <<0, 1, 0>> >>

pieces == <<z, p, t, b, a, l, v>>

\* Edge length of the cube: range(3) in line 44 and the test `< 3` in line 82.
N == 3

(***************************************************************************)
(* Configurations.  "soma" is the script as written.  "reduced" is the     *)
(* script with pieces = [v] and the volume cut down to 1 x 1 x 3.          *)
(***************************************************************************)
Configs == {"soma", "reduced"}

PiecesOf(c) == IF c = "soma" THEN pieces ELSE <<v>>

DimsOf(c) == IF c = "soma" THEN <<N, N, N>> ELSE <<1, 1, N>>

(***************************************************************************)
(* Geometry kernel (lines 21-24).                                          *)
(***************************************************************************)
rotate_x(cubelets) ==
    [i \in DOMAIN cubelets |->
        <<cubelets[i][1], cubelets[i][3], -cubelets[i][2]>>]

rotate_y(cubelets) ==
    [i \in DOMAIN cubelets |->
        <<cubelets[i][3], cubelets[i][2], -cubelets[i][1]>>]

rotate_z(cubelets) ==
    [i \in DOMAIN cubelets |->
        <<-cubelets[i][2], cubelets[i][1], cubelets[i][3]>>]

identity(cubelets) == cubelets

\* The list [identity, rotate_x, rotate_y, rotate_z] of every for loop, 0-based.
Transform(k, cubelets) ==
    CASE k = 0 -> identity(cubelets)
      [] k = 1 -> rotate_x(cubelets)
      [] k = 2 -> rotate_y(cubelets)
      [] k = 3 -> rotate_z(cubelets)

\* Number of entries of that list, and number of nested for loops.
NumTransforms == 4
SeqLen == 5

\* 4^5 iterations of the innermost loop body.
NumSeqs == NumTransforms * NumTransforms * NumTransforms * NumTransforms * NumTransforms

\* The n-th iteration (0-based) of the five nested loops: f_a is the outermost
\* loop, hence the most significant digit of n.
SeqDigits(n) ==
    [i \in 1..SeqLen |->
        CASE i = 1 -> (n \div (NumTransforms * NumTransforms * NumTransforms * NumTransforms)) % NumTransforms
          [] i = 2 -> (n \div (NumTransforms * NumTransforms * NumTransforms)) % NumTransforms
          [] i = 3 -> (n \div (NumTransforms * NumTransforms)) % NumTransforms
          [] i = 4 -> (n \div NumTransforms) % NumTransforms
          [] i = 5 -> n % NumTransforms]

\* A composition that applies the two innermost transforms only.
ApplySeqInnermostTwo(n, piece) ==
    LET d == SeqDigits(n)
    IN  Transform(d[4], Transform(d[5], piece))

\* f_a(f_b(f_c(f_d(f_e(piece))))), line 34.
ApplySeq(n, piece) ==
    LET d == SeqDigits(n)
    IN  Transform(d[1], Transform(d[2], Transform(d[3],
            Transform(d[4], Transform(d[5], piece)))))

\* Python's order on tuples of three integers.
CellLess(c, d) ==
    \/ c[1] < d[1]
    \/ c[1] = d[1] /\ c[2] < d[2]
    \/ c[1] = d[1] /\ c[2] = d[2] /\ c[3] < d[3]

\* sorted(cells): the cells in ascending order, repetitions kept.
RECURSIVE sorted(_)
sorted(cells) ==
    IF cells = <<>> THEN <<>>
    ELSE LET i == CHOOSE k \in DOMAIN cells :
                     \A j \in DOMAIN cells : ~CellLess(cells[j], cells[k])
         IN  <<cells[i]>> \o
             sorted([j \in 1..(Len(cells) - 1) |->
                        IF j < i THEN cells[j] ELSE cells[j + 1]])

\* Lines 35-38: sort, then subtract the first cell of the sorted list
\* (named min_x, min_y, min_z in the source) from every cell.
Canonical(rot_piece) ==
    LET rot_piece_sorted == sorted(rot_piece)
        min_x == rot_piece_sorted[1][1]
        min_y == rot_piece_sorted[1][2]
        min_z == rot_piece_sorted[1][3]
    IN  [i \in DOMAIN rot_piece_sorted |->
            <<rot_piece_sorted[i][1] - min_x,
              rot_piece_sorted[i][2] - min_y,
              rot_piece_sorted[i][3] - min_z>>]

\* Lines 39-40: append only what the list does not hold yet.
AppendIfNew(orients, trans_rot_piece) ==
    IF trans_rot_piece \in Range(orients)
    THEN orients
    ELSE Append(orients, trans_rot_piece)

\* Lines 34-40: the body of the innermost loop, for sequence number n.
RotationBody(orients, piece, n) ==
    AppendIfNew(orients, Canonical(ApplySeq(n, piece)))

\* The loop body run for the sequences lo .. hi-1 in order.  (The test on
\* `done` is always true: it makes the first half be evaluated before the
\* second half is entered, which keeps the evaluation shallow.)
RECURSIVE RotationLoop(_, _, _, _)
RotationLoop(orients, piece, lo, hi) ==
    IF hi <= lo THEN orients
    ELSE IF hi = lo + 1 THEN RotationBody(orients, piece, lo)
    ELSE LET mid == (lo + hi) \div 2
             done == RotationLoop(orients, piece, lo, mid)
         IN  IF Len(done) >= 0
             THEN RotationLoop(done, piece, mid, hi)
             ELSE done

\* Lines 26-41.
generate_rotations(piece) == RotationLoop(<<>>, piece, 0, NumSeqs)

(***************************************************************************)
(* Placement enumerator (lines 44-94).                                     *)
(***************************************************************************)
\* Line 44: the cells of the volume, x outermost and z innermost.
coordinates(dims) ==
    [k \in 1..(dims[1] * dims[2] * dims[3]) |->
        <<(k - 1) \div (dims[2] * dims[3]),
          ((k - 1) \div dims[3]) % dims[2],
          (k - 1) % dims[3]>>]

\* An enumerator that numbers the variables from 0.
InitialPlacementsFromZero(npieces) ==
    [placements          |-> <<>>,
     placements_by_piece |-> [i \in 0..(npieces - 1) |-> {}],
     placements_by_cell  |-> <<>>,
     cell_order          |-> <<>>,
     var_names           |-> <<>>,
     var_counter         |-> 0]

\* Lines 66-70.  A dict is a function; placements_by_cell is a defaultdict, so
\* it has a key only once the key was touched, and cell_order lists its keys in
\* insertion order, the order in which line 122 iterates over them.  Pieces are
\* numbered from 0 as in range(7).
InitialPlacements(npieces) ==
    [placements          |-> <<>>,
     placements_by_piece |-> [i \in 0..(npieces - 1) |-> {}],
     placements_by_cell  |-> <<>>,
     cell_order          |-> <<>>,
     var_names           |-> <<>>,
     var_counter         |-> 1]

\* Lines 76-81: move the orientation so that its cell `base` lands on `anchor`.
Adjusted(anchor, orient, base) ==
    sorted([i \in DOMAIN orient |->
               <<anchor[1] + orient[i][1] - base[1],
                 anchor[2] + orient[i][2] - base[2],
                 anchor[3] + orient[i][3] - base[3]>>])

\* A bounds test that lets a z coordinate equal to the edge length through.
InBoundsInclusiveZ(adjusted, dims) ==
    \A i \in DOMAIN adjusted :
        /\ 0 <= adjusted[i][1] /\ adjusted[i][1] < dims[1]
        /\ 0 <= adjusted[i][2] /\ adjusted[i][2] < dims[2]
        /\ 0 <= adjusted[i][3] /\ adjusted[i][3] <= dims[3]

\* A bounds test that lets an x coordinate equal to the edge length through.
InBoundsInclusiveX(adjusted, dims) ==
    \A i \in DOMAIN adjusted :
        /\ 0 <= adjusted[i][1] /\ adjusted[i][1] <= dims[1]
        /\ 0 <= adjusted[i][2] /\ adjusted[i][2] < dims[2]
        /\ 0 <= adjusted[i][3] /\ adjusted[i][3] < dims[3]

\* Line 82.
InBounds(adjusted, dims) ==
    \A i \in DOMAIN adjusted :
        /\ 0 <= adjusted[i][1] /\ adjusted[i][1] < dims[1]
        /\ 0 <= adjusted[i][2] /\ adjusted[i][2] < dims[2]
        /\ 0 <= adjusted[i][3] /\ adjusted[i][3] < dims[3]

\* An enumerator that allocates a fresh id every time a key is reached.
AllocateAlways(st, placement_key, anchor, piece) ==
    [st EXCEPT
        !.placements  = (placement_key :> st.var_counter) @@ @,
        !.var_names   = @ @@ (st.var_counter :>
                               <<anchor[1] + 1, anchor[2] + 1, anchor[3] + 1, piece + 1>>),
        !.var_counter = @ + 1]

\* Lines 84-89: a key not seen yet gets the next variable id and a name.
Allocate(st, placement_key, anchor, piece) ==
    IF placement_key \in DOMAIN st.placements
    THEN st
    ELSE [st EXCEPT
            !.placements  = @ @@ (placement_key :> st.var_counter),
            !.var_names   = @ @@ (st.var_counter :>
                                   <<anchor[1] + 1, anchor[2] + 1, anchor[3] + 1, piece + 1>>),
            !.var_counter = @ + 1]

\* Lines 92-93: placements_by_cell[cell].add(var) for the cells of the placement.
AddToCells(by_cell, adjusted, var) ==
    [c \in DOMAIN by_cell \cup Range(adjusted) |->
        IF c \in Range(adjusted)
        THEN (IF c \in DOMAIN by_cell THEN by_cell[c] ELSE {}) \cup {var}
        ELSE by_cell[c]]

\* The keys of the defaultdict in insertion order after lines 92-93.
RECURSIVE TouchCells(_, _, _)
TouchCells(order, adjusted, i) ==
    IF i > Len(adjusted) THEN order
    ELSE TouchCells(IF adjusted[i] \in Range(order) THEN order
                    ELSE Append(order, adjusted[i]),
                    adjusted, i + 1)

\* Lines 90-93.
Index(st, placement_key, piece) ==
    LET var == st.placements[placement_key]
    IN  [st EXCEPT
            !.placements_by_piece[piece] = @ \cup {var},
            !.placements_by_cell = AddToCells(@, placement_key[2], var),
            !.cell_order = TouchCells(@, placement_key[2], 1)]

\* Lines 76-93: the body of the innermost loop.
PlacementBody(st, dims, anchor, piece, orient, base) ==
    LET adjusted == Adjusted(anchor, orient, base)
    IN  IF InBounds(adjusted, dims)
        THEN Index(Allocate(st, <<piece, adjusted>>, anchor, piece),
                   <<piece, adjusted>>, piece)
        ELSE st

\* Line 75: for base in orient.  (In the four loops the test on `done` is
\* always true: it makes one iteration be evaluated before the next is entered.)
RECURSIVE BaseLoop(_, _, _, _, _, _)
BaseLoop(st, dims, anchor, piece, orient, bi) ==
    IF bi > Len(orient) THEN st
    ELSE LET done == PlacementBody(st, dims, anchor, piece, orient, orient[bi])
         IN  IF done.var_counter \in Int
             THEN BaseLoop(done, dims, anchor, piece, orient, bi + 1)
             ELSE done

\* Line 74: for orient in orientations[piece].
RECURSIVE OrientLoop(_, _, _, _, _, _)
OrientLoop(st, dims, anchor, piece, orients, oi) ==
    IF oi > Len(orients) THEN st
    ELSE LET done == BaseLoop(st, dims, anchor, piece, orients[oi], 1)
         IN  IF done.var_counter \in Int
             THEN OrientLoop(done, dims, anchor, piece, orients, oi + 1)
             ELSE done

\* Line 73: for piece in range(7).
RECURSIVE PieceLoop(_, _, _, _, _)
PieceLoop(st, dims, anchor, all_orients, pi) ==
    IF pi > Len(all_orients) THEN st
    ELSE LET done == OrientLoop(st, dims, anchor, pi - 1, all_orients[pi], 1)
         IN  IF done.var_counter \in Int
             THEN PieceLoop(done, dims, anchor, all_orients, pi + 1)
             ELSE done

\* Line 72: for anchor in coordinates.
RECURSIVE AnchorLoop(_, _, _, _)
AnchorLoop(st, dims, all_orients, ai) ==
    IF ai > Len(coordinates(dims)) THEN st
    ELSE LET done == PieceLoop(st, dims, coordinates(dims)[ai], all_orients, 1)
         IN  IF done.var_counter \in Int
             THEN AnchorLoop(done, dims, all_orients, ai + 1)
             ELSE done

\* Lines 46-94; num_vars is var_counter - 1.
generate_placements(dims, all_orients) ==
    AnchorLoop(InitialPlacements(Len(all_orients)), dims, all_orients, 1)

(***************************************************************************)
(* Exact-cover CNF encoder (lines 96-125).                                 *)
(***************************************************************************)
\* The clauses [-variables[i], -variables[j]] of lines 109-111 for lo <= i < hi
\* and i < j, in the order of the two loops.
RECURSIVE PairRows(_, _, _)
PairRows(variables, lo, hi) ==
    IF hi <= lo THEN <<>>
    ELSE IF hi = lo + 1
         THEN [j \in 1..(Len(variables) - lo) |->
                  <<-variables[lo], -variables[lo + j]>>]
    ELSE LET mid == (lo + hi) \div 2
         IN  PairRows(variables, lo, mid) \o PairRows(variables, mid, hi)

\* An encoder that emits the at-least-one clause only.
ExactlyOneWithoutPairs(variables) ==
    IF variables = <<>> THEN <<>> ELSE <<variables>>

\* An encoder whose inner loop visits j = i + 1 only.
ExactlyOneAdjacentPairs(variables) ==
    IF variables = <<>>
    THEN <<>>
    ELSE <<variables>> \o [i \in 1..(Len(variables) - 1) |->
                              <<-variables[i], -variables[i + 1]>>]

\* Lines 96-112.
exactly_one(variables) ==
    IF variables = <<>>
    THEN <<>>
    ELSE <<variables>> \o PairRows(variables, 1, Len(variables) + 1)

\* list(a set): the elements in some fixed order.
RECURSIVE list(_)
list(S) ==
    IF S = {} THEN <<>>
    ELSE LET e == CHOOSE e1 \in S : TRUE
         IN  <<e>> \o list(S \ {e})

\* The groups in the order of lines 118 and 122: the pieces 0, 1, ..., then the
\* cells in the order in which placements_by_cell first met them.
NumGroups(st) == Cardinality(DOMAIN st.placements_by_piece) + Len(st.cell_order)

GroupVars(st, g) ==
    LET npieces == Cardinality(DOMAIN st.placements_by_piece)
    IN  IF g <= npieces
        THEN st.placements_by_piece[g - 1]
        ELSE st.placements_by_cell[st.cell_order[g - npieces]]

\* Lines 119-120 and 123-124: the clauses one group adds.
GroupClauses(st, g) == exactly_one(list(GroupVars(st, g)))

\* clauses.extend(exactly_one(...)) for the groups g .. last, in order.
RECURSIVE GroupLoop(_, _, _, _)
GroupLoop(cls, st, g, last) ==
    IF g > last THEN cls
    ELSE LET done == cls \o GroupClauses(st, g)
         IN  IF Len(done) >= 0 THEN GroupLoop(done, st, g + 1, last) ELSE done

\* Lines 114-125, given what generate_placements returned.
generate_sat_instance(st) == GroupLoop(<<>>, st, 1, NumGroups(st))

\* The local list `clauses` of generate_sat_instance once the groups before
\* `group` are encoded.  It is a function of gp and group, and is kept as a
\* definition because it grows to 185,252 clauses.
clauses == GroupLoop(<<>>, gp, 1, group - 1)

(***************************************************************************)
(* The script run to the end on each configuration.                        *)
(***************************************************************************)
OrientationsOf(c) ==
    [i \in DOMAIN PiecesOf(c) |-> generate_rotations(PiecesOf(c)[i])]

SomaOrientations == OrientationsOf("soma")

SomaPlacements == generate_placements(DimsOf("soma"), SomaOrientations)

SomaClauses == generate_sat_instance(SomaPlacements)

SomaNumVars == SomaPlacements.var_counter - 1

NoGp == InitialPlacements(0)

\* The variables of the truth assignment and of count_solutions, unused while
\* the formula is being generated.
NoCount ==
    /\ cs_clauses = <<>>
    /\ cs_num_vars = 0
    /\ solver = <<>>
    /\ solution_count = 0
    /\ models = <<>>

Idle == model = {} /\ faults = 0 /\ NoCount

\* Line 43 calls generate_rotations(piece) for each piece of the list.
InitRotations ==
    /\ cfg = "soma"
    /\ pc = "rotations"
    /\ rot_index \in DOMAIN pieces
    /\ rot_seq = 0
    /\ rot_acc = <<>>
    /\ orientations = <<>>
    /\ loop = <<1, 1>>
    /\ gp = NoGp
    /\ group = 1
    /\ Idle

\* Line 128 calls generate_sat_instance, which calls generate_placements
\* (lines 66-70), with line 43 completed.
InitPlacements ==
    /\ cfg \in Configs
    /\ pc = "placements"
    /\ rot_index = 1
    /\ rot_seq = 0
    /\ rot_acc = <<>>
    /\ orientations = OrientationsOf(cfg)
    /\ loop = <<1, 1>>
    /\ gp = InitialPlacements(Len(PiecesOf(cfg)))
    /\ group = 1
    /\ Idle

Init == InitRotations \/ InitPlacements

\* One iteration of the innermost loop of generate_rotations (lines 34-40);
\* after the last one the list is returned (line 41).
RotationStep ==
    /\ pc = "rotations"
    /\ rot_acc' = RotationBody(rot_acc, pieces[rot_index], rot_seq)
    /\ rot_seq' = rot_seq + 1
    /\ pc' = IF rot_seq + 1 < NumSeqs THEN "rotations" ELSE "rotated"
    /\ UNCHANGED <<cfg, rot_index, orientations, loop, gp, group, satVars, cntVars>>

\* The indices of the loops of lines 72-73 after one more iteration of the
\* inner one; <<0, 0>> once both are exhausted.
NextLoop(lp, dims, all_orients) ==
    IF lp[2] < Len(all_orients) THEN <<lp[1], lp[2] + 1>>
    ELSE IF lp[1] < Len(coordinates(dims)) THEN <<lp[1] + 1, 1>>
    ELSE <<0, 0>>

\* One iteration of the loop of line 73: lines 74-93 for one anchor and one
\* piece; after the last one generate_placements returns (line 94).
PlacementStep ==
    /\ pc = "placements"
    /\ gp' = OrientLoop(gp, DimsOf(cfg), coordinates(DimsOf(cfg))[loop[1]],
                        loop[2] - 1, orientations[loop[2]], 1)
    /\ LET nxt == NextLoop(loop, DimsOf(cfg), orientations)
       IN  IF nxt = <<0, 0>>
           THEN pc' = "encode" /\ loop' = loop
           ELSE pc' = pc /\ loop' = nxt
    /\ UNCHANGED <<cfg, rot_index, rot_seq, rot_acc, orientations, group, satVars, cntVars>>

\* Lines 118-120: the clauses of one piece group are appended to `clauses`.
EncodePieceGroup ==
    /\ pc = "encode"
    /\ group <= Cardinality(DOMAIN gp.placements_by_piece)
    /\ group' = group + 1
    /\ UNCHANGED <<cfg, pc, rot_index, rot_seq, rot_acc, orientations, loop, gp, satVars, cntVars>>

\* Lines 122-124: the clauses of one cell group are appended to `clauses`.
EncodeCellGroup ==
    /\ pc = "encode"
    /\ group > Cardinality(DOMAIN gp.placements_by_piece)
    /\ group <= NumGroups(gp)
    /\ group' = group + 1
    /\ UNCHANGED <<cfg, pc, rot_index, rot_seq, rot_acc, orientations, loop, gp, satVars, cntVars>>

\* Line 125: generate_sat_instance returns.
Return ==
    /\ pc = "encode"
    /\ group > NumGroups(gp)
    /\ pc' = "done"
    /\ UNCHANGED <<genVars, satVars, cntVars>>

Next ==
    \/ RotationStep
    \/ PlacementStep
    \/ EncodePieceGroup
    \/ EncodeCellGroup
    \/ Return

Spec == Init /\ [][Next]_vars

\* The step-by-step runs end in what the functions return.
RunAgrees ==
    /\ pc = "rotated" => rot_acc = generate_rotations(pieces[rot_index])
    /\ pc = "encode" => gp = generate_placements(DimsOf(cfg), orientations)
    /\ pc = "done" => clauses = generate_sat_instance(gp)
    /\ pc = "done" /\ cfg = "soma" =>
           orientations = SomaOrientations /\ gp = SomaPlacements /\ clauses = SomaClauses

(***************************************************************************)
(* Properties of the orientation generator.                                *)
(***************************************************************************)
MinOf(S) == CHOOSE m \in S : \A n \in S : m <= n

\* The least coordinate of an orientation along one axis.
AxisMin(orient, axis) == MinOf({orient[i][axis] : i \in DOMAIN orient})

\* The cells of a shape moved so that the least coordinate on each axis is 0.
Normalized(cells) ==
    LET S == Range(cells)
        mx == MinOf({c[1] : c \in S})
        my == MinOf({c[2] : c \in S})
        mz == MinOf({c[3] : c \in S})
    IN  {<<c[1] - mx, c[2] - my, c[3] - mz>> : c \in S}

\* The 24 proper rotations of the cube: the signed permutations of the axes
\* of determinant +1.  <<perm, sign>> sends c to the cell whose i-th coordinate
\* is sign[i] * c[perm[i]].
EvenPerms == {<<1, 2, 3>>, <<2, 3, 1>>, <<3, 1, 2>>}
OddPerms == {<<1, 3, 2>>, <<3, 2, 1>>, <<2, 1, 3>>}
Signs == {s \in [1..3 -> {-1, 1}] : TRUE}

ProperRotations ==
    {<<pm, s>> : pm \in EvenPerms, s \in {sg \in Signs : sg[1] * sg[2] * sg[3] = 1}}
    \cup
    {<<pm, s>> : pm \in OddPerms, s \in {sg \in Signs : sg[1] * sg[2] * sg[3] = -1}}

Rotated(rot, cells) ==
    [i \in DOMAIN cells |->
        <<rot[2][1] * cells[i][rot[1][1]],
          rot[2][2] * cells[i][rot[1][2]],
          rot[2][3] * cells[i][rot[1][3]]>>]

UnitCells == << <<1, 0, 0>>, <<0, 1, 0>>, <<0, 0, 1>> >>

\* Every proper rotation is the composition of one of the 4^5 sequences.
EveryRotationComposed ==
    /\ Cardinality(ProperRotations) = 24
    /\ \A rot \in ProperRotations :
          \E n \in 0..(NumSeqs - 1) : ApplySeq(n, UnitCells) = Rotated(rot, UnitCells)

\* C3: every orientation generate_rotations collects has least x, least y and
\* least z equal to 0.
C3_AxisMinimaZero ==
    pc \in {"rotations", "rotated"} =>
        \A i \in DOMAIN rot_acc :
            /\ AxisMin(rot_acc[i], 1) = 0
            /\ AxisMin(rot_acc[i], 2) = 0
            /\ AxisMin(rot_acc[i], 3) = 0

\* C5: the list generate_rotations returns has between 1 and 24 entries, no two
\* of them equal as cell sets (nor equal up to a translation), and holds the
\* image of the piece under each of the 24 proper rotations, each of which is
\* the composition of one of the sequences of five transforms.
C5_AllRotationsOnce ==
    /\ pc \in {"rotations", "rotated"} =>
          \A i, j \in DOMAIN rot_acc :
              i # j => /\ Range(rot_acc[i]) # Range(rot_acc[j])
                       /\ Normalized(rot_acc[i]) # Normalized(rot_acc[j])
    /\ pc = "rotated" =>
          /\ 1 <= Len(rot_acc) /\ Len(rot_acc) <= 24
          /\ EveryRotationComposed
          /\ \A rot \in ProperRotations :
                \E i \in DOMAIN rot_acc :
                    Normalized(rot_acc[i]) = Normalized(Rotated(rot, pieces[rot_index]))

\* generate_rotations has returned for a piece with a symmetry: fewer than 24
\* orientations are left of the 1024 candidates.
C5_Witness ==
    pc = "rotated" /\ rot_seq = NumSeqs /\ Len(rot_acc) > 1 /\ Len(rot_acc) < 24

(***************************************************************************)
(* Properties of the placement enumerator.                                 *)
(***************************************************************************)
num_vars == gp.var_counter - 1

\* The keys are numbered 1..num_vars without gaps or repeats, and no two keys
\* are the same piece on the same cell set.
C2_Numbering ==
    pc \in {"placements", "encode", "done"} =>
        /\ {gp.placements[k] : k \in DOMAIN gp.placements} = 1..num_vars
        /\ Cardinality(DOMAIN gp.placements) = num_vars
        /\ Cardinality({<<k[1], Range(k[2])>> : k \in DOMAIN gp.placements}) = num_vars
        /\ DOMAIN gp.var_names = 1..num_vars

\* A step keeps every id it holds and allocates exactly one id per new key.
C2_Reuse ==
    pc = "placements" =>
        /\ \A k \in DOMAIN gp.placements :
              k \in DOMAIN gp'.placements /\ gp'.placements[k] = gp.placements[k]
        /\ gp'.var_counter - gp.var_counter
              = Cardinality(DOMAIN gp'.placements \ DOMAIN gp.placements)

\* C2: placements is a bijection between its keys and 1..num_vars, distinct keys
\* are distinct as (piece, cell set), and a step that meets keys it already
\* holds leaves their ids alone and allocates exactly one id per new key.
C2_Bijection == [](C2_Numbering) /\ [][C2_Reuse]_vars

\* All anchors are done for the cube: every placement was met once per cell it
\* occupies, and some variable is named after an anchor that is not the only
\* cell from which its key was reached.
C2_Witness ==
    /\ pc = "encode" /\ cfg = "soma" /\ num_vars > 0
    /\ \E k \in DOMAIN gp.placements :
          \E i \in DOMAIN k[2] :
              <<k[2][i][1] + 1, k[2][i][2] + 1, k[2][i][3] + 1>>
                  # SubSeq(gp.var_names[gp.placements[k]], 1, 3)

\* The shifts tried when listing the translates of an orientation.
Shifts == {<<dx, dy, dz>> : dx \in (-2 * N)..(2 * N), dy \in (-2 * N)..(2 * N),
                            dz \in (-2 * N)..(2 * N)}

\* The cell sets of the translates of `orient` that lie inside the volume.
TranslatesInside(orient, dims) ==
    {S \in {{<<orient[i][1] + d[1], orient[i][2] + d[2], orient[i][3] + d[3]>> :
                i \in DOMAIN orient} : d \in Shifts} :
        \A c \in S : /\ c[1] \in 0..(dims[1] - 1)
                     /\ c[2] \in 0..(dims[2] - 1)
                     /\ c[3] \in 0..(dims[3] - 1)}

ExpectedKeys ==
    UNION {UNION {{<<i - 1, S>> : S \in TranslatesInside(orientations[i][j], DimsOf(cfg))} :
                     j \in DOMAIN orientations[i]} :
              i \in DOMAIN orientations}

\* C6: the keys of placements are exactly the pairs (piece, S) with S a
\* translate of an orientation of the piece that lies inside the volume.
C6_KeysAreTranslates ==
    /\ pc \in {"placements", "encode", "done"} =>
          \A k \in DOMAIN gp.placements : InBounds(k[2], DimsOf(cfg))
    /\ pc = "encode" /\ group = 1 =>
          {<<k[1], Range(k[2])>> : k \in DOMAIN gp.placements} = ExpectedKeys

C6_Witness ==
    pc = "encode" /\ group = 1 /\ cfg = "soma" /\ DOMAIN gp.placements # {}

(***************************************************************************)
(* Properties of the encoder.                                              *)
(***************************************************************************)
\* The position of a variable in the at-least-one clause.
PositionIn(clause, var) == CHOOSE i \in DOMAIN clause : clause[i] = var

\* cls is one clause holding the k variables of S as positive literals, then
\* one clause [-x, -y] for each pair of S, x before y, no pair twice.
ExactlyOneShape(cls, S) ==
    LET k == Cardinality(S)
    IN  /\ Len(cls) = 1 + (k * (k - 1)) \div 2
        /\ Len(cls[1]) = k
        /\ Range(cls[1]) = S
        /\ \A i \in 2..Len(cls) :
              /\ Len(cls[i]) = 2
              /\ -cls[i][1] \in S
              /\ -cls[i][2] \in S
              /\ PositionIn(cls[1], -cls[i][1]) < PositionIn(cls[1], -cls[i][2])
        /\ Cardinality({{-cls[i][1], -cls[i][2]} : i \in 2..Len(cls)})
              = (k * (k - 1)) \div 2

\* C7: the clauses of the group being encoded, when it has k >= 1 variables,
\* are the at-least-one clause followed by the k*(k-1)/2 pairwise clauses.
C7_GroupShape ==
    pc = "encode" /\ group <= NumGroups(gp) /\ GroupVars(gp, group) # {} =>
        ExactlyOneShape(GroupClauses(gp, group), GroupVars(gp, group))

\* A cell group of the cube with several variables is about to be encoded.
C7_Witness ==
    /\ pc = "encode" /\ cfg = "soma"
    /\ group > Len(pieces) /\ group <= NumGroups(gp)
    /\ Cardinality(GroupVars(gp, group)) > 2

\* Whether some clause of cls is the at-least-one clause of the variables S.
Constrained(cls, S) == S # {} /\ \E i \in DOMAIN cls : Range(cls[i]) = S

\* C4: the formula generate_sat_instance returns has, for every piece and for
\* every cell of the volume, a clause over that group's variables (an empty
\* group would have to end the run in a failure instead of a return).
C4_NoGroupSkipped ==
    pc = "done" =>
        LET returned == clauses
        IN  /\ \A i \in DOMAIN gp.placements_by_piece :
                  Constrained(returned, gp.placements_by_piece[i])
            /\ \A cell \in Range(coordinates(DimsOf(cfg))) :
                  /\ cell \in DOMAIN gp.placements_by_cell
                  /\ Constrained(returned, gp.placements_by_cell[cell])

C9_WellFormed ==
    pc = "done" /\ cfg = "soma" =>
        /\ LET returned == clauses
           IN  \A i \in DOMAIN returned :
                  /\ Len(returned[i]) >= 1
                  /\ \A j \in DOMAIN returned[i] :
                        /\ returned[i][j] # 0
                        /\ (IF returned[i][j] > 0 THEN returned[i][j] ELSE -returned[i][j])
                              \in 1..num_vars
        /\ NumGroups(gp) = Len(pieces) + N * N * N
        /\ \A g \in 1..NumGroups(gp) : GroupVars(gp, g) # {}

C9_Witness ==
    pc = "done" /\ cfg = "soma" /\ group = NumGroups(gp) + 1 /\ num_vars > 0

(***************************************************************************)
(* Truth assignments of the generated formula.  An assignment is the set   *)
(* of the variables it makes true, as in line 215 (`var in chosen_model`). *)
(***************************************************************************)
LitTrue(lit, m) == IF lit > 0 THEN lit \in m ELSE (-lit) \notin m

ClauseTrue(clause, m) == \E i \in DOMAIN clause : LitTrue(clause[i], m)

Satisfies(m, cls) == \A i \in DOMAIN cls : ClauseTrue(cls[i], m)

\* The placement key (piece, cells) of each variable of the cube's formula.
SomaKeyOf ==
    [var \in 1..SomaNumVars |->
        CHOOSE k \in DOMAIN SomaPlacements.placements :
            SomaPlacements.placements[k] = var]

\* The clauses each group of the cube's formula contributes.
SomaGroupClauses ==
    [g \in 1..NumGroups(SomaPlacements) |-> GroupClauses(SomaPlacements, g)]

\* A packing of the cube written down by hand: one placement per piece.
PackedCube ==
    { <<0, << <<0, 0, 0>>, <<1, 0, 0>>, <<1, 1, 0>>, <<2, 1, 0>> >> >>,
      <<1, << <<0, 0, 1>>, <<0, 1, 1>>, <<0, 1, 2>>, <<1, 1, 1>> >> >>,
      <<2, << <<0, 0, 2>>, <<1, 0, 2>>, <<1, 1, 2>>, <<2, 0, 2>> >> >>,
      <<3, << <<1, 2, 1>>, <<1, 2, 2>>, <<2, 1, 2>>, <<2, 2, 2>> >> >>,
      <<4, << <<1, 2, 0>>, <<2, 1, 1>>, <<2, 2, 0>>, <<2, 2, 1>> >> >>,
      <<5, << <<0, 1, 0>>, <<0, 2, 0>>, <<0, 2, 1>>, <<0, 2, 2>> >> >>,
      <<6, << <<1, 0, 1>>, <<2, 0, 0>>, <<2, 0, 1>> >> >> }

PackedModel == {SomaPlacements.placements[k] : k \in PackedCube}

\* How many single changes an assignment may undergo.
MaxFaults == 1

InitSat ==
    /\ cfg = "soma"
    /\ pc = "assigned"
    /\ rot_index = 1
    /\ rot_seq = 0
    /\ rot_acc = <<>>
    /\ orientations = <<>>
    /\ loop = <<1, 1>>
    /\ gp = NoGp
    /\ group = 1
    /\ model \in {PackedModel, {}}
    /\ faults = 0
    /\ NoCount

\* A true variable is made false: its placement is taken out.
Uncover ==
    /\ faults < MaxFaults
    /\ \E var \in model : model' = model \ {var}
    /\ faults' = faults + 1
    /\ UNCHANGED <<genVars, pc, cntVars>>

\* A false variable is made true: its placement is put in.
Cover ==
    /\ faults < MaxFaults
    /\ \E var \in (1..SomaNumVars) \ model : model' = model \cup {var}
    /\ faults' = faults + 1
    /\ UNCHANGED <<genVars, pc, cntVars>>

\* A placement is exchanged for another placement of the same piece.
Move ==
    /\ faults < MaxFaults
    /\ \E var \in model, other \in (1..SomaNumVars) \ model :
          /\ SomaKeyOf[var][1] = SomaKeyOf[other][1]
          /\ model' = (model \ {var}) \cup {other}
    /\ faults' = faults + 1
    /\ UNCHANGED <<genVars, pc, cntVars>>

NextSat == Uncover \/ Cover \/ Move

SpecSat == InitSat /\ [][NextSat]_vars

\* The true placements of piece number `piece`, and those covering `cell`.
PlacedOf(m, piece) == {var \in m : SomaKeyOf[var][1] = piece}

CoveringOf(m, cell) == {var \in m : cell \in Range(SomaKeyOf[var][2])}

\* One placement of each piece, and every cell in exactly one placement.
ExactCover(m) ==
    /\ \A i \in DOMAIN pieces : Cardinality(PlacedOf(m, i - 1)) = 1
    /\ \A cell \in Range(coordinates(<<N, N, N>>)) : Cardinality(CoveringOf(m, cell)) = 1

\* The number of the group of `cell` in the cube's formula.
CellGroup(cell) ==
    Len(pieces) + CHOOSE i \in DOMAIN SomaPlacements.cell_order :
                      SomaPlacements.cell_order[i] = cell

\* One placement of the packed cube was exchanged for another placement of the
\* same piece: each piece is still placed once, a cell is covered twice, and
\* the formula is falsified.
C1_Witness ==
    /\ pc = "assigned" /\ faults = 1
    /\ \A i \in DOMAIN pieces : Cardinality(PlacedOf(model, i - 1)) = 1
    /\ \E cell \in Range(coordinates(<<N, N, N>>)) : Cardinality(CoveringOf(model, cell)) = 2
    /\ ~Satisfies(model, SomaClauses)

\* C1: an assignment satisfies every clause of the cube's formula exactly when
\* its true placements hold one placement of each of the 7 pieces and cover each
\* of the 27 cells exactly once; and a cell covered zero times or more than once
\* falsifies a clause of that cell's own group.
C1_ExactCover ==
    pc = "assigned" =>
        /\ Satisfies(model, SomaClauses) <=> ExactCover(model)
        /\ \A cell \in Range(coordinates(<<N, N, N>>)) :
              Cardinality(CoveringOf(model, cell)) # 1 =>
                  ~Satisfies(model, SomaGroupClauses[CellGroup(cell)])

(***************************************************************************)
(* count_solutions (lines 178-201).  A model is what get_model returns: the *)
(* list of the literals i or -i for the variables i = 1..num_vars.         *)
(***************************************************************************)
\* Bounds of the formulas count_solutions is run on: the number of variables
\* and the number of exactly-one groups.
MaxCountVars == 3
MaxCountGroups == 3

AllModels(n) ==
    {[i \in 1..n |-> IF i \in T THEN i ELSE -i] : T \in SUBSET (1..n)}

\* The variables a model makes true.
TrueVars(m) == {m[i] : i \in {j \in DOMAIN m : m[j] > 0}}

\* A blocking clause that repeats the model instead of negating it.
BlockingClauseUnnegated(m) == m

\* Line 197.
BlockingClause(m) == [i \in DOMAIN m |-> -m[i]]

\* What solver.solve() / get_model() may answer: any assignment of all the
\* variables satisfying the clauses the solver holds.
SolverModels(n, cls) == {m \in AllModels(n) : Satisfies(TrueVars(m), cls)}

\* The formulas the encoder builds from at most MaxCountGroups groups of the
\* variables 1..n: the clauses of exactly_one for each group, one group after
\* the other as in lines 118-124.  Every variable is in some group, as every
\* placement variable is in the group of its piece, so that the solver knows
\* all of 1..n.
RECURSIVE EncodeGroups(_)
EncodeGroups(groups) ==
    IF groups = <<>> THEN <<>>
    ELSE exactly_one(list(groups[1])) \o EncodeGroups(Tail(groups))

CountFormulas(n) ==
    {EncodeGroups(list(G)) :
        G \in {H \in SUBSET ((SUBSET (1..n)) \ {{}}) :
                  Cardinality(H) <= MaxCountGroups /\ UNION H = 1..n}}

\* Lines 187-189.
InitCount ==
    /\ cfg = "soma"
    /\ pc = "counting"
    /\ rot_index = 1
    /\ rot_seq = 0
    /\ rot_acc = <<>>
    /\ orientations = <<>>
    /\ loop = <<1, 1>>
    /\ gp = NoGp
    /\ group = 1
    /\ model = {}
    /\ faults = 0
    /\ cs_num_vars \in 0..MaxCountVars
    /\ cs_clauses \in CountFormulas(cs_num_vars)
    /\ solver = cs_clauses
    /\ solution_count = 0
    /\ models = <<>>

\* Lines 190-198: solve() finds a model; it is counted, recorded and blocked.
FindAndBlock ==
    /\ pc = "counting"
    /\ \E m \in SolverModels(cs_num_vars, solver) :
          /\ solution_count' = solution_count + 1
          /\ models' = Append(models, m)
          /\ solver' = Append(solver, BlockingClause(m))
    /\ UNCHANGED <<genVars, pc, satVars, cs_clauses, cs_num_vars>>

\* Lines 190, 199-201: solve() finds nothing; the count and the list are returned.
Exhausted ==
    /\ pc = "counting"
    /\ SolverModels(cs_num_vars, solver) = {}
    /\ pc' = "counted"
    /\ UNCHANGED <<genVars, satVars, cntVars>>

NextCount == FindAndBlock \/ Exhausted

\* The loop of a sequential program keeps running while it can.
SpecCount == InitCount /\ [][NextCount]_vars /\ WF_vars(NextCount)

\* No model is recorded twice, and solution_count is the length of models.
C10_Distinct ==
    /\ solution_count = Len(models)
    /\ \A i, j \in DOMAIN models : i # j => models[i] # models[j]

\* The clause added in a step excludes the model just found and no other,
\* among the models the solver still had and among all assignments.
C10_BlocksOne ==
    pc = "counting" /\ solver' # solver =>
        /\ Len(models') = Len(models) + 1
        /\ SolverModels(cs_num_vars, solver')
              = SolverModels(cs_num_vars, solver) \ {models'[Len(models')]}
        /\ models'[Len(models')] \in SolverModels(cs_num_vars, solver)
        /\ {other \in AllModels(cs_num_vars) :
                ~ClauseTrue(solver'[Len(solver')], TrueVars(other))}
              = {models'[Len(models')]}

\* What is returned is the number of satisfying assignments of the formula.
C10_Returned ==
    pc = "counted" =>
        /\ solution_count = Cardinality(SolverModels(cs_num_vars, cs_clauses))
        /\ Range(models) = SolverModels(cs_num_vars, cs_clauses)

\* C10: count_solutions never records a model twice, each blocking clause
\* excludes exactly the model just found, the loop terminates, and it returns
\* solution_count = len(models) = the number of satisfying assignments of the
\* formula it was given.
C10_CountsEveryModelOnce ==
    /\ [](C10_Distinct /\ C10_Returned)
    /\ [][C10_BlocksOne]_vars
    /\ <>(pc = "counted")

\* The loop has ended after recording several models of a formula that has
\* clauses and is not satisfied by every assignment.
C10_Witness ==
    /\ pc = "counted"
    /\ cs_clauses # <<>>
    /\ solution_count >= 2
    /\ solution_count < Cardinality(AllModels(cs_num_vars))

=============================================================================
